---- MODULE Spec2Model ----
(***************************************************************************)
(* Model of the waifu backend (src/index.js): an Express process with a    *)
(* rate limiter in front of three routes (GET /health, GET /, POST         *)
(* /api/chat), a chat relay that calls the completion provider, and the    *)
(* self-rescheduling poster postToX.                                        *)
(*                                                                         *)
(* One action is one run-to-completion step of the Node event loop: the    *)
(* synchronous module body (Startup), one request handler up to its first  *)
(* await or its response, the continuation of a handler after an awaited   *)
(* promise settles, one timer callback, one signal handler.  Time is not   *)
(* measured: the expiry of a rate-limit window and the firing of a timer   *)
(* are actions that may happen at any moment.                              *)
(***************************************************************************)
EXTENDS Integers, Sequences, FiniteSets, TLC

VARIABLES
  openAiKey,   \* process.env.OPENAI_API_KEY as read at line 36
  phase,       \* "loading" (module body not run yet), "running", "exited"
  exitCode,    \* the arguments of the process.exit calls made: <<>> while the process lives
  exitCause,   \* which process.exit call ended the process
  listening,   \* app.listen has been called
  hits,        \* rate limiter store: requests counted per client IP in the current window
  pending,     \* chat requests suspended at `await axios.post`, per handler slot
  lastResp,    \* the most recently completed HTTP exchange (request and its response)
  tick,        \* the current (or last) execution of postToX
  inFlight,    \* number of twitterClient.v2.tweet calls not yet settled
  timers       \* pending setTimeout(postToX, ...) timers: their delays in ms

vars == <<openAiKey, phase, exitCode, exitCause, listening, hits, pending,
          lastResp, tick, inFlight, timers>>

----------------------------------------------------------------------------
(* Bounds of the model *)

MaxHits == 11        \* requests one client sends within one window (> RATE_MAX)
MaxPending == 2      \* chat requests suspended on the provider at the same time

(* Program constants *)

RATE_MAX == 10               \* rateLimit({max: 10})
TWEET_LIMIT == 280           \* tweet.length <= 280
TICK_DELAY_MS == 3600000     \* setTimeout(postToX, 3600000)
ISO_LEN == 24                \* length of new Date().toISOString(), "YYYY-MM-DDTHH:mm:ss.sssZ"
SLICE_END == 19              \* .slice(0, 19)
SEPARATOR_LEN == 3           \* " | "

\* cryptoFlirtMessages: the length (String.length, UTF-16 units) of each template
cryptoFlirtMessages == <<67, 67, 80, 71, 55>>

----------------------------------------------------------------------------
(* Inputs *)

ABSENT == "<undefined>"              \* JavaScript undefined: a property that is not there
UNSET == ABSENT                      \* process.env.OPENAI_API_KEY when the variable is not set
Keys == {"sk-A", "sk-B"}             \* credential values
Clients == {"10.0.0.1"}              \* client IPs (the limiter counts per IP)
Slots == 1..MaxPending

Fields == {"waifu", "message", "prompt"}
AllBodies == [waifu : {ABSENT, "", "Aiko"},
              message : {ABSENT, "", "hi"},
              prompt : {ABSENT, "", "You are Aiko"}]
\* request bodies: any subset of the fields absent, or one field empty
Bodies == {b \in AllBodies :
             \/ \A f \in Fields : b[f] # ""
             \/ \A f \in Fields : b[f] # ABSENT /\ Cardinality({g \in Fields : b[g] = ""}) = 1}
NoBody == [waifu |-> ABSENT, message |-> ABSENT, prompt |-> ABSENT]

\* What axios.post can settle with.  resolved: a 2xx answer; choices:
\* response.data.choices, each element with or without a message object and
\* that message's content; message: the error.message of a rejection.
Choice(content) == [hasMessage |-> TRUE, content |-> content]
NoMessageChoice == [hasMessage |-> FALSE, content |-> ABSENT]
UpstreamReplies ==
  { [resolved |-> TRUE,  choices |-> <<Choice("Hello!")>>, message |-> ""],
    [resolved |-> TRUE,  choices |-> <<Choice("Hello!"), Choice("Bye!")>>, message |-> ""],
    [resolved |-> TRUE,  choices |-> <<Choice(ABSENT)>>, message |-> ""],
    [resolved |-> TRUE,  choices |-> <<NoMessageChoice>>, message |-> ""],
    [resolved |-> TRUE,  choices |-> <<>>, message |-> ""],
    [resolved |-> FALSE, choices |-> <<>>, message |-> "Network Error"],
    [resolved |-> FALSE, choices |-> <<>>, message |-> "Request failed with status code 401"] }

PublishOutcomes == {"resolved", "rejected"}   \* how twitterClient.v2.tweet settles

NoCall == [url |-> "", data |-> <<>>, auth |-> <<>>]
NoReq == [active |-> FALSE, body |-> NoBody, calls |-> 0, call |-> NoCall]
NoReply == [resolved |-> FALSE, choices |-> <<>>, message |-> ""]
NoResp == [route |-> "none", body |-> NoBody, limited |-> FALSE, status |-> 0,
           resBody |-> <<"", "">>, calls |-> 0, call |-> NoCall, reply |-> NoReply]
NoTick == [template |-> 0, length |-> 0, calls |-> 0, outcome |-> "none", first |-> FALSE]

----------------------------------------------------------------------------
(* Pure functions of the program *)

Min(a, b) == IF a < b THEN a ELSE b

\* JavaScript `!v` for a string-or-undefined value
Falsy(v) == v = ABSENT \/ v = ""

\* if (!openAiKey)
KeyMissing_unchecked(key) == FALSE
KeyMissing(key) == Falsy(key)

\* if (!waifu || !message || !prompt)
MissingFields_messageAndPromptOnly(body) == Falsy(body.message) \/ Falsy(body.prompt)
MissingFields(body) == Falsy(body.waifu) \/ Falsy(body.message) \/ Falsy(body.prompt)

\* the limiter's decision for the request that raised the count to h
RateLimited(h) == h > RATE_MAX

\* axios.post(url, {model, messages}, {headers}): waifu is not forwarded
OutboundCall_keyInBody(body, key) ==
  [url  |-> "https://api.openai.com/v1/chat/completions",
   data |-> <<<<"model", "gpt-3.5-turbo">>, <<"system", body.prompt>>,
             <<"user", body.message>>, <<"api_key", key>>>>,
   auth |-> <<"Bearer", key>>]
OutboundCall(body, key) ==
  [url  |-> "https://api.openai.com/v1/chat/completions",
   data |-> <<<<"model", "gpt-3.5-turbo">>, <<"system", body.prompt>>,
             <<"user", body.message>>>>,
   auth |-> <<"Bearer", key>>]

\* the catch block's response
ErrorResponse_rawError(reply) == [status |-> 500, resBody |-> <<"error", reply.message>>]
ErrorResponse(reply) == [status |-> 500, resBody |-> <<"error", "Something went wrong">>]

\* response.data.choices[0].message.content throws a TypeError when there is
\* no first choice or it has no message
Extractable(reply) == Len(reply.choices) >= 1 /\ reply.choices[1].hasMessage

\* the handler after `await axios.post`: a rejection, or the TypeError, lands
\* in the catch block; otherwise res.json({response: waifuResponse}), whose
\* argument resBody records (content may be undefined)
ChatComplete(reply) ==
  IF reply.resolved /\ Extractable(reply)
  THEN [status |-> 200, resBody |-> <<"response", reply.choices[1].content>>]
  ELSE ErrorResponse(reply)

HealthResponse == [status |-> 200, resBody |-> <<"status", "OK">>]
RootResponse == [status |-> 200, resBody |-> <<"text", "Waifu Backend is running!">>]
MissingResponse == [status |-> 400, resBody |-> <<"error", "Missing required fields">>]
LimiterResponse == [status |-> 429, resBody |-> <<"text", "Too many requests, please try again later.">>]

\* new Date().toISOString().slice(0, 19).replace('T', ' '): its length
TimestampLen == Min(SLICE_END, ISO_LEN)

\* `${getRandomMessage()} | ${timestamp}`.length for template i
TweetLength(i) == cryptoFlirtMessages[i] + SEPARATOR_LEN + TimestampLen

\* if (tweet.length <= 280)
TweetFits_strict(len) == len < 90
TweetFits(len) == len <= TWEET_LIMIT

\* try { await tweet } catch (error) { console.error }: what becomes of the
\* awaited call's outcome inside postToX
TryCatch_rethrow(outcome) == IF outcome = "rejected" THEN "escaped" ELSE "ok"
TryCatch(outcome) == IF outcome = "rejected" THEN "caught" ELSE "ok"

----------------------------------------------------------------------------
Running == phase = "running"

Init ==
  /\ openAiKey \in {UNSET} \cup Keys
  /\ phase = "loading"
  /\ exitCode = <<>>
  /\ exitCause = "none"
  /\ listening = FALSE
  /\ hits = [c \in Clients |-> 0]
  /\ pending = [s \in Slots |-> NoReq]
  /\ lastResp = NoResp
  /\ tick = NoTick
  /\ inFlight = 0
  /\ timers = <<>>

\* one completed exchange: the request, what the handler did for it (calls
\* to the provider, the reply it got) and the response sent
Resp(route, body, limited, r, calls, call, reply) ==
  [route |-> route, body |-> body, limited |-> limited, status |-> r.status,
   resBody |-> r.resBody, calls |-> calls, call |-> call, reply |-> reply]

\* process.exit(code): the process and everything it held in memory (the
\* limiter's store, suspended handlers, timers, in-flight calls) are gone
Exit(code, cause) ==
  /\ phase' = "exited"
  /\ exitCode' = <<code>>
  /\ exitCause' = cause
  /\ listening' = FALSE
  /\ hits' = [c \in Clients |-> 0]
  /\ pending' = [s \in Slots |-> NoReq]

NoExit == UNCHANGED <<phase, exitCode, exitCause>>

----------------------------------------------------------------------------
(* The scheduled poster *)

\* setTimeout(postToX, 3600000)
ArmTimer(tq) == Append(tq, TICK_DELAY_MS)

\* postToX from its call to its first suspension: compose the tweet from
\* template i, then either start the publish call and suspend at the await,
\* or log "too long" and fall through to setTimeout.  tq: the timers pending
\* when the callback started (without the one that fired).
PostToXBegin_timerBeforeAwait(i, first, tq) ==
  LET len == TweetLength(i) IN
    /\ tick' = [template |-> i, length |-> len, calls |-> 1,
                outcome |-> "pending", first |-> first]
    /\ inFlight' = inFlight + 1
    /\ timers' = ArmTimer(tq)
PostToXBegin(i, first, tq) ==
  LET len == TweetLength(i) IN
    IF TweetFits(len)
    THEN /\ tick' = [template |-> i, length |-> len, calls |-> 1,
                     outcome |-> "pending", first |-> first]
         /\ inFlight' = inFlight + 1
         /\ timers' = tq
    ELSE /\ tick' = [template |-> i, length |-> len, calls |-> 0,
                     outcome |-> "skipped", first |-> first]
         /\ inFlight' = inFlight
         /\ timers' = ArmTimer(tq)

\* postToX().catch(console.error): the first tick, started by the module body
StartPoster_afterDelay(i) ==
  /\ tick' = tick
  /\ inFlight' = inFlight
  /\ timers' = ArmTimer(timers)
StartPoster(i) == PostToXBegin(i, TRUE, timers)

\* The module body, top to bottom, in one synchronous run: the credential
\* check, the first call of postToX, the process handlers, app.listen.
Startup ==
  /\ phase = "loading"
  /\ IF KeyMissing(openAiKey)
     THEN /\ Exit(1, "missingKey")
          /\ UNCHANGED <<tick, inFlight, timers>>
     ELSE /\ \E i \in 1..Len(cryptoFlirtMessages) : StartPoster(i)
          /\ phase' = "running"
          /\ listening' = TRUE
          /\ UNCHANGED <<exitCode, exitCause, hits, pending>>
  /\ UNCHANGED <<openAiKey, lastResp>>

\* a timer set by postToX expires and calls postToX
TimerFire ==
  /\ Running
  /\ timers # <<>>
  /\ \E i \in 1..Len(cryptoFlirtMessages) : PostToXBegin(i, FALSE, Tail(timers))
  /\ NoExit
  /\ UNCHANGED <<openAiKey, listening, hits, pending, lastResp>>

\* the awaited publish call settles and postToX resumes: log or catch, then
\* setTimeout.  An error that left postToX would reject its promise: the
\* first tick's promise has .catch(console.error), a timer callback's promise
\* has no handler and goes to process.on('unhandledRejection') -> exit(1).
PostToXResume_timerInTry(outcome) ==
  /\ inFlight' = inFlight - 1
  /\ tick' = [tick EXCEPT !.outcome = IF outcome = "rejected" THEN "failed" ELSE "posted"]
  /\ timers' = IF outcome = "rejected" THEN timers ELSE ArmTimer(timers)
  /\ NoExit
  /\ UNCHANGED <<listening, hits, pending>>
PostToXResume(outcome) ==
  LET r == TryCatch(outcome) IN
    IF r = "escaped"
    THEN IF tick.first
         THEN /\ tick' = [tick EXCEPT !.outcome = "escaped"]
              /\ inFlight' = inFlight - 1
              /\ timers' = timers
              /\ NoExit
              /\ UNCHANGED <<listening, hits, pending>>
         ELSE /\ tick' = [tick EXCEPT !.outcome = "escaped"]
              /\ inFlight' = 0
              /\ timers' = <<>>
              /\ Exit(1, "unhandledRejection")
    ELSE /\ tick' = [tick EXCEPT !.outcome = IF r = "caught" THEN "failed" ELSE "posted"]
         /\ inFlight' = inFlight - 1
         /\ timers' = ArmTimer(timers)
         /\ NoExit
         /\ UNCHANGED <<listening, hits, pending>>

PublishSettle ==
  /\ Running
  /\ inFlight > 0
  /\ \E outcome \in PublishOutcomes : PostToXResume(outcome)
  /\ UNCHANGED <<openAiKey, lastResp>>

----------------------------------------------------------------------------
(* HTTP: app.use(limiter) runs before every route *)

Admissible(c) == Running /\ listening /\ hits[c] < MaxHits
Count(c) == [hits EXCEPT ![c] = @ + 1]

\* app.get('/health')
HealthRequest ==
  \E c \in Clients :
    /\ Admissible(c)
    /\ hits' = Count(c)
    /\ lastResp' = IF RateLimited(hits'[c])
                   THEN Resp("health", NoBody, TRUE, LimiterResponse, 0, NoCall, NoReply)
                   ELSE Resp("health", NoBody, FALSE, HealthResponse, 0, NoCall, NoReply)
    /\ NoExit
    /\ UNCHANGED <<openAiKey, listening, pending, tick, inFlight, timers>>

\* app.get('/')
RootRequest ==
  \E c \in Clients :
    /\ Admissible(c)
    /\ hits' = Count(c)
    /\ lastResp' = IF RateLimited(hits'[c])
                   THEN Resp("root", NoBody, TRUE, LimiterResponse, 0, NoCall, NoReply)
                   ELSE Resp("root", NoBody, FALSE, RootResponse, 0, NoCall, NoReply)
    /\ NoExit
    /\ UNCHANGED <<openAiKey, listening, pending, tick, inFlight, timers>>

\* app.post('/api/chat') up to its response or to `await axios.post`
ChatRequest ==
  \E c \in Clients, body \in Bodies :
    /\ Admissible(c)
    /\ hits' = Count(c)
    /\ IF RateLimited(hits'[c])
       THEN /\ lastResp' = Resp("chat", body, TRUE, LimiterResponse, 0, NoCall, NoReply)
            /\ pending' = pending
       ELSE IF MissingFields(body)
       THEN /\ lastResp' = Resp("chat", body, FALSE, MissingResponse, 0, NoCall, NoReply)
            /\ pending' = pending
       ELSE /\ \E s \in Slots :
                 /\ ~pending[s].active
                 /\ pending' = [pending EXCEPT ![s] =
                       [active |-> TRUE, body |-> body, calls |-> 1,
                        call |-> OutboundCall(body, openAiKey)]]
            /\ lastResp' = lastResp
    /\ NoExit
    /\ UNCHANGED <<openAiKey, listening, tick, inFlight, timers>>

\* axios.post settles and the handler resumes: res.json or the catch block
UpstreamSettle ==
  \E s \in Slots, reply \in UpstreamReplies :
    /\ Running
    /\ pending[s].active
    /\ lastResp' = Resp("chat", pending[s].body, FALSE, ChatComplete(reply),
                        pending[s].calls, pending[s].call, reply)
    /\ pending' = [pending EXCEPT ![s] = NoReq]
    /\ NoExit
    /\ UNCHANGED <<openAiKey, listening, hits, tick, inFlight, timers>>

\* the limiter's window of client c ends (windowMs after its first request)
WindowExpire ==
  \E c \in Clients :
    /\ Running
    /\ hits[c] > 0
    /\ hits' = [hits EXCEPT ![c] = 0]
    /\ NoExit
    /\ UNCHANGED <<openAiKey, listening, pending, lastResp, tick, inFlight, timers>>

\* process.on('SIGTERM')
Sigterm ==
  /\ Running
  /\ Exit(0, "SIGTERM")
  /\ inFlight' = 0
  /\ timers' = <<>>
  /\ UNCHANGED <<openAiKey, lastResp, tick>>

Next ==
  \/ Startup
  \/ TimerFire
  \/ PublishSettle
  \/ HealthRequest
  \/ RootRequest
  \/ ChatRequest
  \/ UpstreamSettle
  \/ WindowExpire
  \/ Sigterm

Spec == Init /\ [][Next]_vars

\* the event loop runs a timer callback once its timer is due
LiveSpec == Spec /\ WF_vars(TimerFire)

----------------------------------------------------------------------------
(* Vocabulary of the properties, stated without the program's own helpers *)

Range(f) == {f[i] : i \in DOMAIN f}

\* a chat body in which some required field is missing or empty
AnyFieldMissing(b) == \E f \in Fields : b[f] = ABSENT \/ b[f] = ""

ChatDone == lastResp.route = "chat"
FixedError == <<"error", "Something went wrong">>
FixedMissing == <<"error", "Missing required fields">>

\* the poster's state as the specification names it
PosterState ==
  IF inFlight = 1 /\ timers = <<>> THEN "posting"
  ELSE IF inFlight = 0 /\ Len(timers) = 1 THEN "idle"
  ELSE "neither"

\* a step in which a tick of postToX starts / comes to its end
TickStarts == tick' # tick /\ tick'.outcome \in {"pending", "skipped"}
TickEnds == tick' # tick /\ tick'.outcome \in {"posted", "failed", "skipped", "escaped"}
TickOver == tick.outcome \in {"posted", "failed", "skipped", "escaped"}

\* every string that occurs in the JSON body of an outbound call
DataStrings(call) == UNION {Range(call.data[i]) : i \in DOMAIN call.data}
Calls == {lastResp.call} \cup {pending[s].call : s \in Slots}

----------------------------------------------------------------------------
(* C1 *)

\* C1 as stated: every chat request with a missing or empty field is
\* answered 400 {error: "Missing required fields"} and causes no call to the
\* completion provider.
C1_Original ==
  (ChatDone /\ AnyFieldMissing(lastResp.body)) =>
     /\ lastResp.status = 400
     /\ lastResp.resBody = FixedMissing
     /\ lastResp.calls = 0

\* C1 amended: a chat request with a missing or empty field never causes a
\* call to the completion provider, and it is answered 400 {error: "Missing
\* required fields"} unless the rate limiter rejected it (more than RATE_MAX
\* requests of its client in the window), in which case the answer is the
\* limiter's 429.
C1_Amended ==
  /\ \A s \in Slots : pending[s].active => ~AnyFieldMissing(pending[s].body)
  /\ (ChatDone /\ AnyFieldMissing(lastResp.body)) =>
        /\ lastResp.calls = 0
        /\ lastResp.call = NoCall
        /\ IF lastResp.limited
           THEN lastResp.status = 429
           ELSE lastResp.status = 400 /\ lastResp.resBody = FixedMissing

C1_Witness ==
  /\ ChatDone
  /\ lastResp.body = [waifu |-> ABSENT, message |-> "hi", prompt |-> "You are Aiko"]
  /\ lastResp.status = 400
  /\ lastResp.resBody = FixedMissing

----------------------------------------------------------------------------
(* C2 *)

\* C2 as stated: every chat request with all three fields present causes
\* exactly one call to the provider and is answered 200 {response: first
\* choice} or 500 {error: "Something went wrong"}.
C2_Original ==
  (ChatDone /\ ~AnyFieldMissing(lastResp.body)) =>
     /\ lastResp.calls = 1
     /\ \/ /\ lastResp.status = 200
           /\ lastResp.reply.choices # <<>>
           /\ lastResp.resBody = <<"response", Head(lastResp.reply.choices).content>>
        \/ /\ lastResp.status = 500
           /\ lastResp.resBody = FixedError

\* C2 amended: a chat request with all three fields present that the rate
\* limiter admits causes exactly one call to the provider, and its response
\* is 200 {response: content of the first choice} when the call resolved
\* with a first choice that has a message, and 500 {error: "Something went
\* wrong"} for every other outcome, never the upstream error; a request the
\* limiter rejects causes no call and gets the limiter's 429.
C2_Amended ==
  /\ \A s \in Slots : pending[s].active => pending[s].calls = 1
  /\ (ChatDone /\ ~AnyFieldMissing(lastResp.body)) =>
        IF lastResp.limited
        THEN lastResp.status = 429 /\ lastResp.calls = 0
        ELSE /\ lastResp.calls = 1
             /\ IF /\ lastResp.reply.resolved
                   /\ lastResp.reply.choices # <<>>
                   /\ Head(lastResp.reply.choices).hasMessage
                THEN /\ lastResp.status = 200
                     /\ lastResp.resBody = <<"response", Head(lastResp.reply.choices).content>>
                ELSE /\ lastResp.status = 500
                     /\ lastResp.resBody = FixedError

C2_Witness ==
  /\ ChatDone
  /\ ~AnyFieldMissing(lastResp.body)
  /\ lastResp.reply.message = "Request failed with status code 401"
  /\ lastResp.status = 500
  /\ lastResp.calls = 1

----------------------------------------------------------------------------
(* C3 *)

\* C3: every GET /health is answered 200 {status: "OK"}, whatever requests
\* came before it.
C3_HealthAlwaysOK ==
  lastResp.route = "health" =>
     lastResp.status = 200 /\ lastResp.resBody = <<"status", "OK">>

----------------------------------------------------------------------------
(* C4 *)

\* C4: a step that ends a tick (publish resolved, publish rejected, or the
\* tick skipped) leaves exactly the timer for the next tick, set to one
\* hour; and while the process runs a finished tick is followed by the
\* start of another one.
C4_NextTickScheduled ==
  /\ [][(TickEnds /\ Running') => timers' = <<3600000>>]_vars
  /\ ((Running /\ TickOver) ~> (~Running \/ tick.outcome = "pending"))

C4_Witness ==
  /\ Running
  /\ tick.outcome = "failed"
  /\ timers = <<3600000>>
  /\ inFlight = 0

----------------------------------------------------------------------------
(* C5 *)

\* C5: in every tick the composed text is template + " | " + 19-character
\* timestamp; if it is longer than 280 the tick makes no publish call,
\* otherwise it makes exactly one, which is in flight until the tick ends.
C5_PublishIffFits ==
  tick # NoTick =>
     /\ tick.length = cryptoFlirtMessages[tick.template] + 3 + 19
     /\ IF tick.length > 280
        THEN tick.calls = 0 /\ tick.outcome = "skipped"
        ELSE tick.calls = 1 /\ tick.outcome # "skipped"
     /\ Running => ((tick.outcome = "pending") = (inFlight = 1))
     /\ inFlight <= 1

C5_Witness ==
  /\ tick.template = 3
  /\ tick.length = 102
  /\ tick.calls = 1
  /\ tick.outcome = "posted"

----------------------------------------------------------------------------
(* C6 *)

\* C6: a rejected publish call never leaves postToX: no tick ends with an
\* escaped error, the process never exits through the uncaughtException or
\* unhandledRejection handler, and the step that handles the rejection
\* changes neither the process state nor any request or response.
C6_FailureSwallowed ==
  /\ [](tick.outcome # "escaped")
  /\ [](exitCause \notin {"uncaughtException", "unhandledRejection"})
  /\ [][(tick.outcome = "pending" /\ tick'.outcome \in {"failed", "escaped"}) =>
          UNCHANGED <<phase, exitCode, exitCause, listening, hits, pending, lastResp>>]_vars

C6_Witness ==
  /\ Running
  /\ listening
  /\ ~tick.first
  /\ tick.outcome = "failed"

----------------------------------------------------------------------------
(* C7 *)

\* C7: with OPENAI_API_KEY not set the process never runs: it is not
\* listening, has handled no request, has started no tick, publish call or
\* timer, and once the module body has run it has exited with code 1.
C7_NoKeyNoService ==
  openAiKey = UNSET =>
     /\ phase \in {"loading", "exited"}
     /\ phase = "exited" => exitCode = <<1>>
     /\ ~listening
     /\ lastResp = NoResp
     /\ \A s \in Slots : ~pending[s].active
     /\ tick = NoTick
     /\ inFlight = 0
     /\ timers = <<>>

C7_Witness ==
  /\ openAiKey = UNSET
  /\ phase = "exited"
  /\ exitCode = <<1>>
  /\ exitCause = "missingKey"

----------------------------------------------------------------------------
(* C8 *)

\* C8: the credential occurs in no response body and in no body of an
\* outbound call; every call to the provider carries it in the
\* Authorization header only.  (Request strings are not credentials, so the
\* bodies are the same whichever credential the run was started with.)
C8_KeyOnlyInAuthHeader ==
  /\ openAiKey \notin Range(lastResp.resBody)
  /\ \A call \in Calls :
        /\ openAiKey \notin DataStrings(call)
        /\ call # NoCall => call.auth = <<"Bearer", openAiKey>>
        /\ DataStrings(call) \cap Keys = {}

C8_Witness ==
  /\ openAiKey = "sk-B"
  /\ lastResp.status = 200
  /\ lastResp.call.auth = <<"Bearer", "sk-B">>
  /\ lastResp.resBody = <<"response", "Hello!">>

----------------------------------------------------------------------------
(* C9 *)

\* C9: while the process runs the poster is either idle (one timer, no
\* publish call) or posting (one publish call, no timer) and one of the two
\* steps out of that state is possible; a tick starts from idle and, for a
\* text within the limit, enters posting; the end of a tick enters idle;
\* and the module body starts the first tick itself, with no timer.
C9_TwoStates ==
  /\ [](Running => PosterState \in {"idle", "posting"})
  /\ [](Running => ENABLED (TimerFire \/ PublishSettle))
  /\ [][(Running /\ TickStarts) => (PosterState = "idle" /\ PosterState' = "posting")]_vars
  /\ [][(TickEnds /\ Running') => (PosterState = "posting" /\ PosterState' = "idle")]_vars
  /\ [][(phase = "loading" /\ phase' = "running") =>
          (tick'.first /\ tick'.outcome = "pending" /\ PosterState' = "posting")]_vars

C9_Witness ==
  /\ Running
  /\ ~tick.first
  /\ tick.outcome = "pending"
  /\ PosterState = "posting"

----------------------------------------------------------------------------
(* C10 *)

\* C10: a pending next-tick timer and an in-flight publish call never
\* exist together, and there is never more than one of either, also while
\* chat requests are suspended on the provider.
C10_NoOverlap == inFlight + Len(timers) <= 1

C10_Witness ==
  /\ inFlight = 1
  /\ timers = <<>>
  /\ ~tick.first
  /\ \E s \in Slots : pending[s].active

====
